---- MODULE Spec2Model ----
(***************************************************************************)
(* Model of gitlab.py: the GitLab CI/CD variables auditor.                 *)
(*                                                                         *)
(* One run of main() is a sequential process.  Its steps are separated at  *)
(* the points where it talks to the world: reading the token, each         *)
(* project-listing request, the datetime.now() call, each variable         *)
(* request, writing the report file and printing the summary.  The GitLab  *)
(* server and the file system are the environment: every response or       *)
(* failure they can give is chosen with \E.                                *)
(***************************************************************************)
EXTENDS Integers, Sequences, FiniteSets, TLC

\* ------------------------------------------------------------------ bounds
\* number of projects the server holds
MaxProjects == 3
\* largest number of items the server puts in one page (per_page, scaled)
MaxPageLen == 2
\* largest number of CI/CD variables of one project
MaxVars == 3

\* ------------------------------------------------------------- environment
\* sys.argv[1] / input().strip(): empty or a token
Tokens == {"", "glpat"}

\* exceptions requests.get / raise_for_status raise on a transport failure:
\* a network error, or a non-2xx status (403 permission denial included)
TransportErrors == {"ConnectionError", "HTTPError"}

\* The i-th project of the server's listing.  GitLab lists the newest
\* project first, so ids descend along the enumeration.
ServerProject(i) == [id |-> MaxProjects + 1 - i]

\* response.headers: 'x-next-page' absent, present and empty, or present
NoHeaders == [h \in {} |-> ""]
Headers == {NoHeaders,
            [h \in {"x-next-page"} |-> ""],
            [h \in {"x-next-page"} |-> "next"]}

\* what the server can answer to a listing request when n projects have
\* already been served
ListResponses(n) ==
    LET m == IF MaxProjects - n < MaxPageLen THEN MaxProjects - n ELSE MaxPageLen
    IN  {[kind |-> "ok", body |-> [i \in 1..k |-> ServerProject(n + i)], headers |-> h] :
            k \in 0..m, h \in Headers}
        \cup {[kind |-> e, body |-> <<>>, headers |-> NoHeaders] : e \in TransportErrors}

\* a project's variable list of n variables, as the API returns it
VarList(n) == [i \in 1..n |-> [key |-> i]]

\* what the server can answer to a variables request
VarResponses ==
    {[kind |-> "ok", body |-> VarList(n)] : n \in 0..MaxVars}
    \cup {[kind |-> e, body |-> <<>>] : e \in TransportErrors}

\* ------------------------------------------------------------------- state
VARIABLES
    pc,             \* position of main()
    token,          \* the token main() read
    page,           \* get_all_projects: page
    projects,       \* get_all_projects: projects, then audit_secrets: projects
    results,        \* audit_secrets: results
    idx,            \* audit_secrets: position of the for loop (1-based)
    clock,          \* wall-clock time, one tick per observable event
    requests,       \* every HTTP request issued so far, in order
    pageResponses,  \* what each listing request got back
    outcomes,       \* what each variables request got back
    fetched,        \* what each call of get_project_variables returned
    uncaught,       \* exception that left main(), "none" if none
    exitStatus,     \* exit status of the process
    saved,          \* the report file was written
    displayed,      \* display_summary has printed the summary
    rendered        \* display_summary: sorted_projects as printed

vars == <<pc, token, page, projects, results, idx, clock, requests,
          pageResponses, outcomes, fetched, uncaught, exitStatus, saved, displayed, rendered>>

\* ----------------------------------------------------------------- helpers
\* a handler that catches network errors only
IsRequestException_HTTPErrorEscapes(e) == e \in {"ConnectionError"}
\* except requests.exceptions.RequestException: both are subclasses of it
IsRequestException(e) == e \in {"ConnectionError", "HTTPError"}

\* 'x-next-page' not in response.headers or not response.headers['x-next-page']
LastPage(headers) ==
    \/ "x-next-page" \notin DOMAIN headers
    \/ headers["x-next-page"] = ""

\* the loop body with an except branch that gives up what was collected
get_all_projects_step_DropsOnError(projs, pg, resp) ==
    IF resp.kind # "ok"
    THEN [projects |-> <<>>, page |-> pg, done |-> TRUE, raised |-> "none"]
    ELSE IF resp.body = <<>>
    THEN [projects |-> projs, page |-> pg, done |-> TRUE, raised |-> "none"]
    ELSE IF LastPage(resp.headers)
    THEN [projects |-> projs \o resp.body, page |-> pg, done |-> TRUE, raised |-> "none"]
    ELSE [projects |-> projs \o resp.body, page |-> pg + 1, done |-> FALSE, raised |-> "none"]

\* the loop body without the x-next-page test
get_all_projects_step_IgnoresHeader(projs, pg, resp) ==
    IF resp.kind # "ok"
    THEN [projects |-> projs, page |-> pg, done |-> TRUE, raised |-> "none"]
    ELSE IF resp.body = <<>>
    THEN [projects |-> projs, page |-> pg, done |-> TRUE, raised |-> "none"]
    ELSE [projects |-> projs \o resp.body, page |-> pg + 1, done |-> FALSE, raised |-> "none"]

\* the loop body without the try/except
get_all_projects_step_NoTry(projs, pg, resp) ==
    IF resp.kind # "ok"
    THEN [projects |-> projs, page |-> pg, done |-> TRUE, raised |-> resp.kind]
    ELSE IF resp.body = <<>>
    THEN [projects |-> projs, page |-> pg, done |-> TRUE, raised |-> "none"]
    ELSE IF LastPage(resp.headers)
    THEN [projects |-> projs \o resp.body, page |-> pg, done |-> TRUE, raised |-> "none"]
    ELSE [projects |-> projs \o resp.body, page |-> pg + 1, done |-> FALSE, raised |-> "none"]

\* one iteration of the while loop of get_all_projects, given the response
get_all_projects_step(projs, pg, resp) ==
    IF resp.kind # "ok"
    THEN IF IsRequestException(resp.kind)
         THEN [projects |-> projs, page |-> pg, done |-> TRUE, raised |-> "none"]
         ELSE [projects |-> projs, page |-> pg, done |-> TRUE, raised |-> resp.kind]
    ELSE IF resp.body = <<>>
    THEN [projects |-> projs, page |-> pg, done |-> TRUE, raised |-> "none"]
    ELSE IF LastPage(resp.headers)
    THEN [projects |-> projs \o resp.body, page |-> pg, done |-> TRUE, raised |-> "none"]
    ELSE [projects |-> projs \o resp.body, page |-> pg + 1, done |-> FALSE, raised |-> "none"]

\* get_project_variables without the try/except
get_project_variables_NoTry(resp) ==
    IF resp.kind = "ok"
    THEN [ret |-> resp.body, raised |-> "none"]
    ELSE [ret |-> <<>>, raised |-> resp.kind]

\* get_project_variables, given the response to its request
get_project_variables(resp) ==
    IF resp.kind = "ok"
    THEN [ret |-> resp.body, raised |-> "none"]
    ELSE IF IsRequestException(resp.kind)
    THEN [ret |-> <<>>, raised |-> "none"]
    ELSE [ret |-> <<>>, raised |-> resp.kind]

\* the time at which the run started: the clock ticks once per request
datetime_now_AtStart == clock - Len(requests)
\* datetime.now()
datetime_now == clock

\* results before audit_secrets has built it
NoResults ==
    [audit_date |-> 0, total_projects |-> 0, projects_with_secrets |-> 0,
     total_secrets |-> 0, projects |-> <<>>]

\* the loop body counting one secret per project
Aggregate_CountsOne(res, project, variables) ==
    IF variables # <<>>
    THEN [res EXCEPT
            !.projects_with_secrets = @ + 1,
            !.total_secrets = @ + 1,
            !.projects = Append(@, [id |-> project.id,
                                    variables |-> [i \in 1..Len(variables) |->
                                                      [key |-> variables[i].key]]])]
    ELSE res

\* the loop body appending an entry for every project
Aggregate_AppendsAlways(res, project, variables) ==
    [res EXCEPT
        !.projects_with_secrets = IF variables # <<>> THEN @ + 1 ELSE @,
        !.total_secrets = @ + Len(variables),
        !.projects = Append(@, [id |-> project.id,
                                variables |-> [i \in 1..Len(variables) |->
                                                  [key |-> variables[i].key]]])]

\* the body of the for loop of audit_secrets, after the fetch
Aggregate(res, project, variables) ==
    IF variables # <<>>
    THEN [res EXCEPT
            !.projects_with_secrets = @ + 1,
            !.total_secrets = @ + Len(variables),
            !.projects = Append(@, [id |-> project.id,
                                    variables |-> [i \in 1..Len(variables) |->
                                                      [key |-> variables[i].key]]])]
    ELSE res

\* a loop that stops one project early
LoopDone_SkipsLast(i, projs) == i >= Len(projs)
\* the for loop of audit_secrets is exhausted
LoopDone(i, projs) == i > Len(projs)

\* s[::-1]
Reverse(s) == [i \in 1..Len(s) |-> s[Len(s) + 1 - i]]

\* list.sort is stable: x goes behind every element whose key is not larger
RECURSIVE InsertStable(_, _)
InsertStable(s, x) ==
    IF s = <<>> THEN <<x>>
    ELSE IF Len(Head(s).variables) <= Len(x.variables)
         THEN <<Head(s)>> \o InsertStable(Tail(s), x)
         ELSE <<x>> \o s

RECURSIVE SortFrom(_, _)
SortFrom(acc, rest) ==
    IF rest = <<>> THEN acc
    ELSE SortFrom(InsertStable(acc, Head(rest)), Tail(rest))

\* sorted(s, key=lambda x: len(x['variables'])), ascending and stable
SortByCount(s) == SortFrom(<<>>, s)

\* sorted(...)[::-1]: ascending sort, reversed afterwards
sorted_projects_SortThenReverse(s) == Reverse(SortByCount(s))
\* sorted(results['projects'], key=lambda x: len(x['variables']), reverse=True)
\* CPython reverses the list, sorts it stably ascending and reverses it again
sorted_projects(s) == Reverse(SortByCount(Reverse(s)))

\* -------------------------------------------------------------------- Init
Init ==
    /\ pc = "main"
    /\ token = ""
    /\ page = 1
    /\ projects = <<>>
    /\ results = NoResults
    /\ idx = 1
    /\ clock = 1
    /\ requests = <<>>
    /\ pageResponses = <<>>
    /\ outcomes = <<>>
    /\ fetched = <<>>
    /\ uncaught = "none"
    /\ exitStatus = 0
    /\ saved = FALSE
    /\ displayed = FALSE
    /\ rendered = <<>>

\* ----------------------------------------------------------------- actions
\* main, up to the construction of the auditor
ReadToken ==
    /\ pc = "main"
    /\ \E t \in Tokens :
        /\ token' = t
        /\ IF t = ""
           THEN pc' = "exited" /\ exitStatus' = 1
           ELSE pc' = "get_all_projects" /\ exitStatus' = exitStatus
    /\ UNCHANGED <<page, projects, results, idx, clock, requests, pageResponses,
                   outcomes, fetched, uncaught, saved, displayed, rendered>>

\* get_all_projects: one iteration of the while loop
ListPage ==
    /\ pc = "get_all_projects"
    /\ \E resp \in ListResponses(Len(projects)) :
        LET st == get_all_projects_step(projects, page, resp)
        IN  /\ requests' = Append(requests, [kind |-> "projects", arg |-> page, time |-> clock])
            /\ clock' = clock + 1
            /\ pageResponses' = Append(pageResponses, resp)
            /\ projects' = st.projects
            /\ page' = st.page
            /\ IF st.raised # "none"
               THEN pc' = "exited" /\ uncaught' = st.raised /\ exitStatus' = 1
               ELSE /\ pc' = IF st.done THEN "init_results" ELSE "get_all_projects"
                    /\ UNCHANGED <<uncaught, exitStatus>>
    /\ UNCHANGED <<token, results, idx, outcomes, fetched, saved, displayed, rendered>>

\* audit_secrets: the results dict is built once get_all_projects returned
InitResults ==
    /\ pc = "init_results"
    /\ results' = [audit_date |-> datetime_now,
                   total_projects |-> Len(projects),
                   projects_with_secrets |-> 0,
                   total_secrets |-> 0,
                   projects |-> <<>>]
    /\ clock' = clock + 1
    /\ idx' = 1
    /\ pc' = "scan"
    /\ UNCHANGED <<token, page, projects, requests, pageResponses, outcomes,
                   fetched, uncaught, exitStatus, saved, displayed, rendered>>

\* audit_secrets: one iteration of the for loop
CheckProject ==
    /\ pc = "scan"
    /\ ~LoopDone(idx, projects)
    /\ \E resp \in VarResponses :
        LET project == projects[idx]
            r == get_project_variables(resp)
        IN  /\ requests' = Append(requests, [kind |-> "variables", arg |-> project.id, time |-> clock])
            /\ clock' = clock + 1
            /\ outcomes' = Append(outcomes, resp)
            /\ IF r.raised # "none"
               THEN /\ pc' = "exited" /\ uncaught' = r.raised /\ exitStatus' = 1
                    /\ UNCHANGED <<fetched, results, idx>>
               ELSE /\ fetched' = Append(fetched, r.ret)
                    /\ results' = Aggregate(results, project, r.ret)
                    /\ idx' = idx + 1
                    /\ UNCHANGED <<pc, uncaught, exitStatus>>
    /\ UNCHANGED <<token, page, projects, pageResponses, saved, displayed, rendered>>

\* audit_secrets: return results
AuditReturn ==
    /\ pc = "scan"
    /\ LoopDone(idx, projects)
    /\ pc' = "save_results"
    /\ UNCHANGED <<token, page, projects, results, idx, clock, requests, pageResponses,
                   outcomes, fetched, uncaught, exitStatus, saved, displayed, rendered>>

\* save_results: open() and json.dump either work or raise OSError
SaveResults ==
    /\ pc = "save_results"
    /\ \E ok \in BOOLEAN :
        IF ok
        THEN saved' = TRUE /\ pc' = "display_summary" /\ UNCHANGED <<uncaught, exitStatus>>
        ELSE saved' = FALSE /\ pc' = "exited" /\ uncaught' = "OSError" /\ exitStatus' = 1
    /\ UNCHANGED <<token, page, projects, results, idx, clock, requests, pageResponses,
                   outcomes, fetched, displayed, rendered>>

\* display_summary, then main returns
DisplaySummary ==
    /\ pc = "display_summary"
    /\ rendered' = IF results.projects = <<>> THEN <<>> ELSE sorted_projects(results.projects)
    /\ displayed' = TRUE
    /\ pc' = "exited"
    /\ UNCHANGED <<token, page, projects, results, idx, clock, requests, pageResponses,
                   outcomes, fetched, uncaught, exitStatus, saved>>

Next ==
    \/ ReadToken
    \/ ListPage
    \/ InitResults
    \/ CheckProject
    \/ AuditReturn
    \/ SaveResults
    \/ DisplaySummary

Spec == Init /\ [][Next]_vars

\* ------------------------------------------------- vocabulary of the claims
\* audit_secrets has built the results dict
Built ==
    \/ pc \in {"scan", "save_results", "display_summary"}
    \/ pc = "exited" /\ (saved \/ uncaught = "OSError")

\* audit_secrets has returned
Returned ==
    \/ pc \in {"save_results", "display_summary"}
    \/ pc = "exited" /\ (saved \/ uncaught = "OSError")

IsListRequest(r) == r.kind = "projects"
IsVarRequest(r) == r.kind = "variables"
ListRequests == SelectSeq(requests, IsListRequest)
VarRequests == SelectSeq(requests, IsVarRequest)

RECURSIVE SumVars(_)
SumVars(ps) == IF ps = <<>> THEN 0 ELSE Len(Head(ps).variables) + SumVars(Tail(ps))

RECURSIVE ConcatBodies(_)
ConcatBodies(rs) == IF rs = <<>> THEN <<>> ELSE Head(rs).body \o ConcatBodies(Tail(rs))

\* ids of the first Len(lists) projects whose list is not empty, in order
RECURSIVE NonEmptyIds(_, _)
NonEmptyIds(projs, lists) ==
    IF lists = <<>> THEN <<>>
    ELSE (IF Head(lists) # <<>> THEN <<Head(projs).id>> ELSE <<>>)
         \o NonEmptyIds(Tail(projs), Tail(lists))

RECURSIVE SumLens(_)
SumLens(lists) == IF lists = <<>> THEN 0 ELSE Len(Head(lists)) + SumLens(Tail(lists))

ReportIds == [i \in 1..Len(results.projects) |-> results.projects[i].id]
OkBodies == [i \in 1..Len(outcomes) |-> IF outcomes[i].kind = "ok" THEN outcomes[i].body ELSE <<>>]

\* the server signalled a further page on a page received with items
Continues(r) ==
    /\ r.kind = "ok"
    /\ r.body # <<>>
    /\ "x-next-page" \in DOMAIN r.headers
    /\ r.headers["x-next-page"] # ""

\* ------------------------------------------------------------------ claims

\* C1: after every iteration of the per-project loop and on return,
\* total_secrets is the sum of the lengths of the variables of the report's
\* projects, projects_with_secrets is the number of report projects, and
\* projects_with_secrets does not exceed total_projects.
C1_ReportCounts ==
    Built =>
        /\ results.total_secrets = SumVars(results.projects)
        /\ results.projects_with_secrets = Len(results.projects)
        /\ results.projects_with_secrets <= results.total_projects

C1_Witness ==
    /\ pc = "save_results"
    /\ Len(results.projects) >= 1
    /\ results.total_secrets >= 2
    /\ \E i \in 1..Len(outcomes) : outcomes[i].kind \in TransportErrors
    /\ \E i \in 1..Len(outcomes) : outcomes[i].kind = "ok" /\ outcomes[i].body = <<>>

\* C2: a project is in report.projects iff its fetch returned a non-empty
\* list: never when it returned an empty one, exactly once otherwise, and
\* the report's entries follow the enumeration order.
C2_EntryIffNonEmpty ==
    Built =>
        /\ Len(fetched) <= Len(projects)
        /\ ReportIds = NonEmptyIds(projects, fetched)
        /\ \A i \in 1..Len(fetched) :
            LET hits == {j \in 1..Len(results.projects) : results.projects[j].id = projects[i].id}
            IN  /\ fetched[i] = <<>> => hits = {}
                /\ fetched[i] # <<>> =>
                    /\ Cardinality(hits) = 1
                    /\ \A j \in hits : Len(results.projects[j].variables) = Len(fetched[i])

C2_Witness ==
    /\ pc = "save_results"
    /\ Len(fetched) = 3
    /\ fetched[1] # <<>>
    /\ fetched[2] = <<>>
    /\ fetched[3] # <<>>
    /\ Len(results.projects) = 2

\* C3: a transport failure of the fetch for project X yields an empty list
\* and does not abort the audit: X is not in the report, total_projects
\* counts X, the counters count only the successful fetches, and the
\* projects after X are fetched and aggregated all the same.
C3_FetchFailureAbsorbed ==
    /\ uncaught \notin TransportErrors
    /\ Len(fetched) = Len(outcomes)
    /\ \A i \in 1..Len(outcomes) :
        outcomes[i].kind \in TransportErrors =>
            /\ fetched[i] = <<>>
            /\ \A j \in 1..Len(results.projects) : results.projects[j].id # projects[i].id
    /\ Built =>
        /\ results.total_projects = Len(projects)
        /\ ReportIds = NonEmptyIds(projects, OkBodies)
        /\ results.projects_with_secrets = Len(NonEmptyIds(projects, OkBodies))
        /\ results.total_secrets = SumLens(OkBodies)
    /\ Returned => Len(outcomes) = Len(projects)

C3_Witness ==
    /\ pc = "save_results"
    /\ Len(outcomes) = 3
    /\ outcomes[1].kind = "ok" /\ outcomes[1].body # <<>>
    /\ outcomes[2].kind \in TransportErrors
    /\ outcomes[3].kind = "ok" /\ outcomes[3].body # <<>>
    /\ results.total_projects = 3
    /\ results.projects_with_secrets = 2

\* C4: pages are requested as 1, 2, 3, ..., once each; page n+1 is requested
\* iff page n arrived, had items and carried a non-empty x-next-page header;
\* the result is the concatenation of the pages received; two items with a
\* next signal followed by an empty page give 2 projects in 2 requests.
C4_Pagination ==
    /\ Len(ListRequests) = Len(pageResponses)
    /\ \A n \in 1..Len(ListRequests) : ListRequests[n].arg = n
    /\ \A n \in 1..Len(pageResponses) :
        n < Len(pageResponses) => Continues(pageResponses[n])
    /\ pc = "get_all_projects" =>
        /\ page = Len(pageResponses) + 1
        /\ \A n \in 1..Len(pageResponses) : Continues(pageResponses[n])
    /\ pc # "get_all_projects" /\ pageResponses # <<>> =>
        ~Continues(pageResponses[Len(pageResponses)])
    /\ projects = ConcatBodies(pageResponses)
    /\ ( /\ Len(pageResponses) >= 2
         /\ Len(pageResponses[1].body) = 2
         /\ Continues(pageResponses[1])
         /\ pageResponses[2].kind = "ok"
         /\ pageResponses[2].body = <<>> ) =>
            /\ pc # "get_all_projects"
            /\ Len(projects) = 2
            /\ Len(ListRequests) = 2

C4_Witness ==
    /\ pc = "init_results"
    /\ Len(pageResponses) = 2
    /\ Len(pageResponses[1].body) = 2
    /\ Continues(pageResponses[1])
    /\ pageResponses[2].kind = "ok"
    /\ pageResponses[2].body = <<>>
    /\ Len(projects) = 2
    /\ Len(ListRequests) = 2

\* C5: when the request for page k fails, enumeration stops without a retry
\* and without a later request, the pages 1..k-1 are what is returned, no
\* error reaches the caller, and audit_secrets fetches the variables of
\* exactly those projects with total_projects equal to their number.
C5_ListFailureStops ==
    \A k \in 1..Len(pageResponses) :
        pageResponses[k].kind \in TransportErrors =>
            /\ k = Len(pageResponses)
            /\ Len(ListRequests) = k
            /\ ListRequests[k].arg = k
            /\ pc # "get_all_projects"
            /\ uncaught \notin TransportErrors
            /\ projects = ConcatBodies(SubSeq(pageResponses, 1, k - 1))
            /\ Built => results.total_projects = Len(projects)
            /\ Len(VarRequests) <= Len(projects)
            /\ \A i \in 1..Len(VarRequests) : VarRequests[i].arg = projects[i].id
            /\ Returned => Len(VarRequests) = Len(projects)

C5_Witness ==
    /\ pc = "save_results"
    /\ Len(pageResponses) = 2
    /\ pageResponses[2].kind \in TransportErrors
    /\ Len(projects) = 2
    /\ Len(VarRequests) = 2
    /\ results.total_projects = 2

\* C6 as stated: audit_date is taken before the first project-listing
\* request, so it is not later than the time of any request of the audit.
C6_DateBeforeEveryRequest ==
    Built => \A i \in 1..Len(requests) : results.audit_date <= requests[i].time

\* C6 as amended: audit_date is taken after get_all_projects has returned and
\* before the first variables request: it is not earlier than any
\* project-listing request and not later than any variables request.
C6_DateBetweenListingAndFetches ==
    Built =>
        \A i \in 1..Len(requests) :
            /\ IsListRequest(requests[i]) => requests[i].time <= results.audit_date
            /\ IsVarRequest(requests[i]) => results.audit_date <= requests[i].time

C6_Witness ==
    /\ pc = "save_results"
    /\ Len(ListRequests) >= 2
    /\ Len(VarRequests) >= 2

\* C7: no exception escapes audit_secrets: whatever the listing and the
\* variables requests answer, a run with a token gets a report back, every
\* listing failure having ended the enumeration and every fetch failure
\* having given an empty result.
C7_NoExceptionEscapes ==
    /\ uncaught \in {"none", "OSError"}
    /\ uncaught = "OSError" => pc = "exited" /\ ~saved
    /\ pc = "exited" /\ token # "" =>
        /\ Returned
        /\ results.audit_date # 0
        /\ Len(fetched) = results.total_projects
    /\ \A k \in 1..Len(pageResponses) :
        pageResponses[k].kind \in TransportErrors =>
            k = Len(pageResponses) /\ pc # "get_all_projects"
    /\ \A i \in 1..Len(outcomes) :
        outcomes[i].kind \in TransportErrors => Len(fetched) >= i /\ fetched[i] = <<>>

C7_Witness ==
    /\ pc = "save_results"
    /\ \E k \in 1..Len(pageResponses) : pageResponses[k].kind = "HTTPError"
    /\ \E i \in 1..Len(outcomes) : outcomes[i].kind = "ConnectionError"
    /\ \E i \in 1..Len(outcomes) : outcomes[i].kind = "HTTPError"

\* C8: every enumerated project is visited exactly once, in enumeration
\* order, without retries: the i-th variables request is for the i-th
\* project, their number on return is total_projects whether the fetches
\* fail or not, and none is issued before the enumeration has finished.
C8_OneFetchPerProject ==
    /\ Len(VarRequests) = Len(outcomes)
    /\ Len(VarRequests) <= Len(projects)
    /\ \A i \in 1..Len(VarRequests) : VarRequests[i].arg = projects[i].id
    /\ Returned => Len(VarRequests) = results.total_projects
    /\ Built => results.total_projects = Len(projects)
    /\ pc = "get_all_projects" => VarRequests = <<>>
    /\ \A i, j \in 1..Len(requests) :
        IsListRequest(requests[i]) /\ IsVarRequest(requests[j]) => i < j

C8_Witness ==
    /\ pc = "save_results"
    /\ Len(VarRequests) = 3
    /\ results.total_projects = 3
    /\ outcomes[1].kind \in TransportErrors
    /\ outcomes[2].kind = "ok"
    /\ outcomes[3].kind \in TransportErrors

\* C9 as stated: the only run of main that ends with a non-zero exit status
\* is one that failed to write the report file.
C9_NonZeroOnlyOnWriteFailure ==
    pc = "exited" /\ exitStatus # 0 => uncaught = "OSError"

\* C9 as amended: main ends with a non-zero exit status exactly when the
\* token is empty (before any request) or writing the report file fails;
\* transport errors do not change the exit status, and the run goes through
\* save_results and display_summary.
C9_NonZeroOnEmptyTokenOrWriteFailure ==
    /\ exitStatus # 0 => pc = "exited"
    /\ pc = "exited" =>
        /\ exitStatus # 0 <=> (token = "" \/ uncaught = "OSError")
        /\ token = "" => requests = <<>> /\ uncaught = "none"
        /\ uncaught = "OSError" => Returned /\ ~saved
        /\ exitStatus = 0 => saved /\ displayed

C9_Witness ==
    /\ pc = "exited"
    /\ exitStatus = 0
    /\ saved
    /\ displayed
    /\ \E k \in 1..Len(pageResponses) : pageResponses[k].kind \in TransportErrors
    /\ \E i \in 1..Len(outcomes) : outcomes[i].kind \in TransportErrors

\* C10: display_summary prints the report's projects by descending number
\* of variables, and projects with the same number in the order they have
\* in the report.
C10_DescendingStable ==
    displayed /\ results.projects # <<>> =>
        /\ Len(rendered) = Len(results.projects)
        /\ \A i \in 1..Len(results.projects) :
            \E j \in 1..Len(rendered) : rendered[j] = results.projects[i]
        /\ \A i, j \in 1..Len(rendered) :
            i < j =>
                /\ Len(rendered[i].variables) >= Len(rendered[j].variables)
                /\ Len(rendered[i].variables) = Len(rendered[j].variables) =>
                    \E a, b \in 1..Len(results.projects) :
                        /\ a < b
                        /\ results.projects[a] = rendered[i]
                        /\ results.projects[b] = rendered[j]

C10_Witness ==
    /\ displayed
    /\ Len(results.projects) = 3
    /\ Len(results.projects[1].variables) = 1
    /\ Len(results.projects[2].variables) = 3
    /\ Len(results.projects[3].variables) = 1
    /\ rendered = <<results.projects[2], results.projects[1], results.projects[3]>>

====
